---- MODULE Spec2Model ----
(***************************************************************************)
(* Model of the error-chain library github.com/dohernandez/errors.         *)
(*                                                                         *)
(* The heap of error values is the sequence `nodes`: a reference is an     *)
(* index into it and Nil (0) is Go's nil error.  Every constructor returns *)
(* the pair of the heap after the call and the returned reference, so that *)
(* "returns err itself" (identity) and "returns a fresh node" are          *)
(* different outcomes.  `last` records the most recent call of a caller:   *)
(* its operation, its arguments, its result and the heap size before it.   *)
(*                                                                         *)
(* Spec takes every call as one step.  SpecCallers runs the calls of       *)
(* concurrent callers in two steps each, the reads of the call at entry    *)
(* and the allocation at return, so that other callers' calls fall in      *)
(* between; `calls` holds the call each caller is in.                      *)
(***************************************************************************)
EXTENDS Naturals, Sequences, FiniteSets, TLC

VARIABLES nodes, last, calls

vars == <<nodes, last, calls>>

(* ------------------------------ bounds --------------------------------- *)

\* A constructor call is taken only while fewer than MaxNodes errors exist.
MaxNodes == 4

\* The same for the calls of concurrent callers, errors being allocated by
\* calls in progress included.
MaxCallerNodes == 3

(* --------------------------- values and nodes -------------------------- *)

Nil == 0

\* interface{} values of a key-value list: a dynamic type and a printed value.
Str(x) == [t |-> "string", v |-> x, s |-> <<>>]
Int(x) == [t |-> "int", v |-> x, s |-> <<>>]
Slice(q) == [t |-> "slice", v |-> "", s |-> q]

NoTuples == <<>>

errorString(message) ==
    [kind |-> "errorString", message |-> message, err |-> Nil, cause |-> Nil,
     keysAndValues |-> NoTuples]

withMessage(message, err) ==
    [kind |-> "withMessage", message |-> message, err |-> err, cause |-> Nil,
     keysAndValues |-> NoTuples]

withError(message, err, cause) ==
    [kind |-> "withError", message |-> message, err |-> err, cause |-> cause,
     keysAndValues |-> NoTuples]

enrichedError(err, kv) ==
    [kind |-> "enrichedError", message |-> "", err |-> err, cause |-> Nil,
     keysAndValues |-> kv]

\* An error value of another package (context.Canceled): a message only, no
\* Is, Unwrap or Cause method.
foreignError(message) ==
    [kind |-> "foreign", message |-> message, err |-> Nil, cause |-> Nil,
     keysAndValues |-> NoTuples]

Refs(h) == 0..Len(h)
Present(h) == 1..Len(h)

Alloc(h, n) == [heap |-> Append(h, n), ret |-> Len(h) + 1]
Same(h, r) == [heap |-> h, ret |-> r]

(* ------------------------------ messages ------------------------------- *)

IsVerb(p) == p \in {"%s", "%v", "%d"}

\* fmt.Sprintf over a format given as its pieces (literal text and verbs):
\* each verb prints the next argument.
RECURSIVE Sprintf(_, _)
Sprintf(format, args) ==
    IF format = <<>> THEN ""
    ELSE IF IsVerb(Head(format))
         THEN IF args = <<>>
              THEN "%!" \o "v(MISSING)" \o Sprintf(Tail(format), args)
              ELSE Head(args) \o Sprintf(Tail(format), Tail(args))
         ELSE Head(format) \o Sprintf(Tail(format), args)

\* Error() reading the node's own message field on every variant.
Error_OwnMessage(h, e) == h[e].message

\* The Error() method of each variant.
RECURSIVE Error(_, _)
Error(h, e) ==
    IF h[e].kind = "enrichedError" THEN Error(h, h[e].err) ELSE h[e].message

(* ----------------------------- constructors ---------------------------- *)

New(h, message) == Alloc(h, errorString(message))

Newf(h, format, args) == Alloc(h, errorString(Sprintf(format, args)))

\* Wrap with the arguments of the message swapped.
Wrap_SwappedMessage(h, err, message) ==
    IF err = Nil THEN Same(h, Nil)
    ELSE Alloc(h, withMessage(Sprintf(<<"%s", ": ", "%s">>, <<Error(h, err), message>>), err))

\* Wrap storing the new withMessage itself as its inner error.
Wrap_SelfInner(h, err, message) ==
    IF err = Nil THEN Same(h, Nil)
    ELSE Alloc(h, withMessage(Sprintf(<<"%s", ": ", "%s">>, <<message, Error(h, err)>>),
                              Len(h) + 1))

Wrap(h, err, message) ==
    IF err = Nil THEN Same(h, Nil)
    ELSE Alloc(h, withMessage(Sprintf(<<"%s", ": ", "%s">>, <<message, Error(h, err)>>), err))

Wrapf(h, err, format, args) ==
    IF err = Nil THEN Same(h, Nil)
    ELSE Wrap(h, err, Sprintf(format, args))

\* WrapError treating a nil err as Wrap does: it returns nil.
WrapError_NilOnNilErr(h, err, supplied) ==
    IF err = Nil THEN Same(h, Nil)
    ELSE IF supplied = Nil THEN Same(h, err)
    ELSE Alloc(h, withError(Sprintf(<<"%s", ": ", "%s">>, <<Error(h, supplied), Error(h, err)>>),
                            supplied, err))

\* WrapError storing err as the unwrap target and supplied as the cause.
WrapError_SwappedEdges(h, err, supplied) ==
    IF err = Nil THEN Same(h, supplied)
    ELSE IF supplied = Nil THEN Same(h, err)
    ELSE Alloc(h, withError(Sprintf(<<"%s", ": ", "%s">>, <<Error(h, supplied), Error(h, err)>>),
                            err, supplied))

WrapError(h, err, supplied) ==
    IF err = Nil THEN Same(h, supplied)
    ELSE IF supplied = Nil THEN Same(h, err)
    ELSE Alloc(h, withError(Sprintf(<<"%s", ": ", "%s">>, <<Error(h, supplied), Error(h, err)>>),
                            supplied, err))

\* Enrich rejecting a list of odd length by returning nil.
Enrich_NilOnOdd(h, err, kv) ==
    IF err = Nil THEN Same(h, Nil)
    ELSE IF Len(kv) % 2 # 0 THEN Same(h, Nil)
    ELSE Alloc(h, enrichedError(err, kv))

\* Enrich appending the list to an enrichedError in place.
Enrich_AppendInPlace(h, err, kv) ==
    IF err = Nil THEN Same(h, Nil)
    ELSE IF Len(kv) % 2 # 0 THEN Same(h, err)
    ELSE IF h[err].kind = "enrichedError"
         THEN Same([h EXCEPT ![err].keysAndValues = @ \o kv], err)
         ELSE Alloc(h, enrichedError(err, kv))

\* Enrich without the test of err against nil.
Enrich_NoNilCheck(h, err, kv) ==
    IF Len(kv) % 2 # 0 THEN Same(h, err)
    ELSE Alloc(h, enrichedError(err, kv))

\* Enrich declining the lists of even length and taking those of odd length.
Enrich_ParityInverted(h, err, kv) ==
    IF err = Nil THEN Same(h, Nil)
    ELSE IF Len(kv) % 2 = 0 THEN Same(h, err)
    ELSE Alloc(h, enrichedError(err, kv))

\* Enrich without the test of the length of the list.
Enrich_AllowOdd(h, err, kv) ==
    IF err = Nil THEN Same(h, Nil)
    ELSE Alloc(h, enrichedError(err, kv))

Enrich(h, err, kv) ==
    IF err = Nil THEN Same(h, Nil)
    ELSE IF Len(kv) % 2 # 0 THEN Same(h, err)
    ELSE Alloc(h, enrichedError(err, kv))

\* EnrichWrapError enriching err first and cause-wrapping the result.
EnrichWrapError_EnrichFirst(h, err, supplied, kv) ==
    LET e == Enrich(h, err, kv)
    IN  WrapError(e.heap, e.ret, supplied)

EnrichWrapError(h, err, supplied, kv) ==
    LET w == WrapError(h, err, supplied)
    IN  Enrich(w.heap, w.ret, kv)

(* ------------------------------ traversal ------------------------------ *)

\* The Unwrap and Cause methods of the variants that have them.
withMessageUnwrap(h, wm) == h[wm].err
withErrorUnwrap(h, we) == h[we].err
withErrorCause(h, we) == h[we].cause
enrichedErrorUnwrap(h, ee) == h[ee].err

\* The package function Unwrap: the result of the value's Unwrap method if it
\* has one, nil otherwise (also for a nil error).
Unwrap(h, err) ==
    IF err = Nil THEN Nil
    ELSE IF h[err].kind = "withMessage" THEN withMessageUnwrap(h, err)
    ELSE IF h[err].kind = "withError" THEN withErrorUnwrap(h, err)
    ELSE IF h[err].kind = "enrichedError" THEN enrichedErrorUnwrap(h, err)
    ELSE Nil

\* Cause looking through one message-wrap or enrichment layer.
Cause_ThroughUnwrap(h, err) ==
    IF err = Nil THEN Nil
    ELSE IF h[err].kind = "withError" THEN withErrorCause(h, err)
    ELSE IF h[err].kind \in {"withMessage", "enrichedError"}
            /\ h[h[err].err].kind = "withError"
         THEN withErrorCause(h, h[err].err)
    ELSE Nil

\* Cause: the type assertion err.(causer) succeeds on a withError only.
Cause(h, err) ==
    IF err = Nil THEN Nil
    ELSE IF h[err].kind = "withError" THEN withErrorCause(h, err)
    ELSE Nil

RECURSIVE Is(_, _, _)
RECURSIVE withErrorIs(_, _, _)

\* errorString.Is that matches another errorString only.
errorStringIs_SameVariant(h, s, err) ==
    h[err].kind = "errorString" /\ h[s].message = Error(h, err)

errorStringIs(h, s, err) == h[s].message = Error(h, err)

\* withError.Is that tests the supplied error only and never the cause.
withErrorIs_NoCause(h, we, target) == Is(h, h[we].err, target)

withErrorIs(h, we, target) ==
    IF Is(h, h[we].err, target) THEN TRUE
    ELSE LET cause == Cause(h, we)
         IN  IF cause = Nil THEN FALSE ELSE Is(h, cause, target)

\* errors.Is: walks the Unwrap chain of err; a value matches when it is
\* identical to target or its Is method accepts target.
Is(h, err, target) ==
    IF err = Nil \/ target = Nil THEN err = target
    ELSE IF err = target THEN TRUE
    ELSE IF h[err].kind = "errorString" /\ errorStringIs(h, err, target) THEN TRUE
    ELSE IF h[err].kind = "withError" /\ withErrorIs(h, err, target) THEN TRUE
    ELSE LET u == Unwrap(h, err)
         IN  IF u = Nil THEN FALSE ELSE Is(h, u, target)

RECURSIVE keysAndValues(_, _)

\* keysAndValues appending the node's own pairs after the collected ones.
keysAndValues_OwnLast(h, err) ==
    LET kv == IF h[err].kind = "enrichedError" THEN h[err].keysAndValues ELSE <<>>
        uErr == Unwrap(h, err)
        cause == Cause(h, err)
    IN  IF uErr = Nil THEN kv
        ELSE IF cause = Nil THEN keysAndValues(h, uErr) \o kv
        ELSE keysAndValues(h, uErr) \o keysAndValues(h, cause) \o kv

keysAndValues(h, err) ==
    LET kv == IF h[err].kind = "enrichedError" THEN h[err].keysAndValues ELSE <<>>
        uErr == Unwrap(h, err)
        cause == Cause(h, err)
    IN  IF uErr = Nil THEN kv
        ELSE IF cause = Nil THEN kv \o keysAndValues(h, uErr)
        ELSE kv \o keysAndValues(h, uErr) \o keysAndValues(h, cause)

Tuples(h, ee) == keysAndValues(h, ee)

\* The loop of tuples.fields from position i, with the pending label and the
\* map built so far; it returns the map and the label left at the end.
RECURSIVE fieldsLoop(_, _, _, _)

\* The loop storing the tail after the offending key, t[i+1:], not t[i:].
fieldsLoop_TailAfterKey(t, i, label, result) ==
    IF i > Len(t) THEN [result |-> result, label |-> label]
    ELSE IF label = ""
         THEN IF t[i].t # "string" \/ t[i].v = ""
              THEN [result |-> [k \in DOMAIN result \cup {"malformedFields"} |->
                                   IF k = "malformedFields"
                                   THEN Slice(SubSeq(t, i + 1, Len(t)))
                                   ELSE result[k]],
                    label |-> ""]
              ELSE fieldsLoop(t, i + 1, t[i].v, result)
         ELSE fieldsLoop(t, i + 1, "",
                         [k \in DOMAIN result \cup {label} |->
                             IF k = label THEN t[i] ELSE result[k]])

fieldsLoop(t, i, label, result) ==
    IF i > Len(t) THEN [result |-> result, label |-> label]
    ELSE IF label = ""
         THEN IF t[i].t # "string" \/ t[i].v = ""
              THEN [result |-> [k \in DOMAIN result \cup {"malformedFields"} |->
                                   IF k = "malformedFields"
                                   THEN Slice(SubSeq(t, i, Len(t)))
                                   ELSE result[k]],
                    label |-> ""]
              ELSE fieldsLoop(t, i + 1, t[i].v, result)
         ELSE fieldsLoop(t, i + 1, "",
                         [k \in DOMAIN result \cup {label} |->
                             IF k = label THEN t[i] ELSE result[k]])

EmptyMap == [k \in {} |-> Str("")]

fields(t) ==
    IF Len(t) = 0 THEN EmptyMap
    ELSE LET r == fieldsLoop(t, 1, "", EmptyMap)
         IN  IF r.label # ""
             THEN [k \in DOMAIN r.result \cup {"malformedFields"} |->
                      IF k = "malformedFields" THEN Slice(<<Str(r.label)>>)
                      ELSE r.result[k]]
             ELSE r.result

Fields(h, ee) == fields(h[ee].keysAndValues)

\* The type assertion to an interface with Tuples() and Fields(): only an
\* enrichedError has these methods.
Enrichable(h, err) == err # Nil /\ h[err].kind = "enrichedError"

(* ------------------------------- inputs -------------------------------- *)

Messages == {"failed", "oops"}
WrapMessages == {"oops"}
Formats == {<<"oops: ", "%v">>}
WrapFormats == {<<"oops id ", "%d">>}
FormatArgs == {<<"failed">>}
WrapFormatArgs == {<<"5">>}

KVEmpty == <<>>
KVId == <<Str("id"), Int("5")>>
KVBlock == <<Str("number"), Int("6"), Str("hash"), Str("0X0")>>
KVOdd == <<Str("id"), Str("5"), Int("5")>>

EvenKVs == {KVEmpty, KVId, KVBlock}
OddKVs == {KVOdd}
KVs == EvenKVs \cup OddKVs

(* ------------------------------- state --------------------------------- *)

Call(op, err, supplied, message, kv, ret, pre) ==
    [op |-> op, err |-> err, supplied |-> supplied, message |-> message,
     kv |-> kv, ret |-> ret, pre |-> pre]

Callers == {1, 2}

\* The call a caller is in: its arguments, and what it has computed at entry
\* from the heap of pre errors: the errors it allocates (new), the fields it
\* assigns in existing errors (writes) and its result.
InCall(op, err, supplied, message, kv, pre, writes, new, ret) ==
    [pc |-> "entered", op |-> op, err |-> err, supplied |-> supplied,
     message |-> message, kv |-> kv, pre |-> pre, writes |-> writes,
     new |-> new, ret |-> ret]

Idle ==
    [pc |-> "idle", op |-> "", err |-> Nil, supplied |-> Nil, message |-> "",
     kv |-> <<>>, pre |-> 0, writes |-> {}, new |-> <<>>, ret |-> Nil]

Init ==
    /\ nodes = <<foreignError("context canceled")>>
    /\ last = Call("init", Nil, Nil, "", <<>>, Nil, 1)
    /\ calls = [c \in Callers |-> Idle]

Budget == Len(nodes) < MaxNodes

\* A constructor call: the heap becomes the one the constructor returns.
Constructed(op, err, supplied, message, kv, r) ==
    /\ nodes' = r.heap
    /\ last' = Call(op, err, supplied, message, kv, r.ret, Len(nodes))
    /\ UNCHANGED calls

\* A traversal call: it only reads the heap.  Its record keeps the result;
\* the properties of traversals are stated over every argument in the heap.
Read(op, result) ==
    /\ nodes' = nodes
    /\ last' = Call(op, Nil, Nil, "", <<>>, result, Len(nodes))
    /\ UNCHANGED calls

CallNew ==
    /\ Budget
    /\ \E m \in Messages : Constructed("New", Nil, Nil, m, <<>>, New(nodes, m))

CallNewf ==
    /\ Budget
    /\ \E f \in Formats, a \in FormatArgs :
          Constructed("Newf", Nil, Nil, Sprintf(f, a), <<>>, Newf(nodes, f, a))

CallWrap ==
    /\ Budget
    /\ \E e \in Refs(nodes), m \in WrapMessages :
          Constructed("Wrap", e, Nil, m, <<>>, Wrap(nodes, e, m))

CallWrapf ==
    /\ Budget
    /\ \E e \in Refs(nodes), f \in WrapFormats, a \in WrapFormatArgs :
          Constructed("Wrapf", e, Nil, Sprintf(f, a), <<>>, Wrapf(nodes, e, f, a))

CallWrapError ==
    /\ Budget
    /\ \E e \in Refs(nodes), s \in Refs(nodes) :
          Constructed("WrapError", e, s, "", <<>>, WrapError(nodes, e, s))

CallEnrich ==
    /\ Budget
    /\ \E e \in Refs(nodes), kv \in KVs :
          Constructed("Enrich", e, Nil, "", kv, Enrich(nodes, e, kv))

CallEnrichWrapError ==
    /\ Budget
    /\ \E e \in Refs(nodes), s \in Refs(nodes), kv \in KVs :
          Constructed("EnrichWrapError", e, s, "", kv, EnrichWrapError(nodes, e, s, kv))

CallUnwrap ==
    \E e \in Refs(nodes) : Read("Unwrap", Unwrap(nodes, e))

CallCause ==
    \E e \in Refs(nodes) : Read("Cause", Cause(nodes, e))

CallIs ==
    \E e \in Refs(nodes), t \in Refs(nodes) : Read("Is", Is(nodes, e, t))

CallError ==
    \E e \in Present(nodes) : Read("Error", Error(nodes, e))

CallTuples ==
    \E e \in Present(nodes) :
        /\ nodes[e].kind = "enrichedError"
        /\ Read("Tuples", Tuples(nodes, e))

CallFields ==
    \E e \in Present(nodes) :
        /\ nodes[e].kind = "enrichedError"
        /\ Read("Fields", Fields(nodes, e))

Next ==
    \/ CallNew
    \/ CallNewf
    \/ CallWrap
    \/ CallWrapf
    \/ CallWrapError
    \/ CallEnrich
    \/ CallEnrichWrapError
    \/ CallUnwrap
    \/ CallCause
    \/ CallIs
    \/ CallError
    \/ CallTuples
    \/ CallFields

Spec == Init /\ [][Next]_vars

(* --------------------------- concurrent callers ------------------------ *)

Allocating == Len(nodes) + Cardinality({c \in Callers : calls[c].new # <<>>})

CallerBudget == Allocating < MaxCallerNodes

\* Entry of a constructor call: the call reads its arguments and the heap and
\* computes the errors it is going to allocate.
EnterConstructor(c, op, err, supplied, message, kv, r) ==
    /\ calls[c].pc = "idle"
    /\ CallerBudget
    /\ calls' = [calls EXCEPT ![c] =
          InCall(op, err, supplied, message, kv, Len(nodes),
                 {<<n, r.heap[n]>> : n \in {m \in Present(nodes) : r.heap[m] # nodes[m]}},
                 SubSeq(r.heap, Len(nodes) + 1, Len(r.heap)),
                 r.ret)]
    /\ UNCHANGED <<nodes, last>>

\* Entry of a traversal call: it reads the heap and computes its result.
EnterRead(c, op, err, result) ==
    /\ calls[c].pc = "idle"
    /\ calls' = [calls EXCEPT ![c] =
          InCall(op, err, Nil, "", <<>>, Len(nodes), {}, <<>>, result)]
    /\ UNCHANGED <<nodes, last>>

Enter(c) ==
    \/ \E m \in Messages :
          EnterConstructor(c, "New", Nil, Nil, m, <<>>, New(nodes, m))
    \/ \E f \in Formats, a \in FormatArgs :
          EnterConstructor(c, "Newf", Nil, Nil, Sprintf(f, a), <<>>, Newf(nodes, f, a))
    \/ \E e \in Refs(nodes), m \in WrapMessages :
          EnterConstructor(c, "Wrap", e, Nil, m, <<>>, Wrap(nodes, e, m))
    \/ \E e \in Refs(nodes), f \in WrapFormats, a \in WrapFormatArgs :
          EnterConstructor(c, "Wrapf", e, Nil, Sprintf(f, a), <<>>, Wrapf(nodes, e, f, a))
    \/ \E e \in Refs(nodes), s \in Refs(nodes) :
          EnterConstructor(c, "WrapError", e, s, "", <<>>, WrapError(nodes, e, s))
    \/ \E e \in Refs(nodes), kv \in KVs :
          EnterConstructor(c, "Enrich", e, Nil, "", kv, Enrich(nodes, e, kv))
    \/ \E e \in Refs(nodes), s \in Refs(nodes), kv \in KVs :
          EnterConstructor(c, "EnrichWrapError", e, s, "", kv,
                           EnrichWrapError(nodes, e, s, kv))
    \/ \E e \in Present(nodes) :
          EnterRead(c, "Error", e, Error(nodes, e))
    \/ \E e \in Present(nodes) :
          /\ nodes[e].kind = "enrichedError"
          /\ EnterRead(c, "Tuples", e, Tuples(nodes, e))

\* A reference computed at entry, in the heap at return: the errors the call
\* allocates come after those allocated by other callers in the meantime.
Moved(p, ref) == IF ref > p.pre THEN ref + (Len(nodes) - p.pre) ELSE ref

\* Return of a call: its writes and its allocations take effect.
Return(c) ==
    LET p == calls[c]
        written == [n \in Present(nodes) |->
                      IF \E w \in p.writes : w[1] = n
                      THEN (CHOOSE w \in p.writes : w[1] = n)[2]
                      ELSE nodes[n]]
        fresh == [i \in 1..Len(p.new) |->
                    [p.new[i] EXCEPT !.err = Moved(p, @), !.cause = Moved(p, @)]]
    IN  /\ p.pc = "entered"
        /\ nodes' = written \o fresh
        /\ calls' = [calls EXCEPT ![c] = Idle]
        /\ UNCHANGED last

NextCallers == \E c \in Callers : Enter(c) \/ Return(c)

SpecCallers == Init /\ [][NextCallers]_vars

(* ------------------- tuples.fields on arbitrary lists ------------------- *)

\* The longest list of keys and values given to fields.
MaxTuples == 4

\* Elements of a list: a key, the empty string, a value that is not a string,
\* and the key under which fields stores what it could not pair.
TupleValues == {Str("id"), Str(""), Int("5"), Str("malformedFields")}

TupleLists == UNION {[1..n -> TupleValues] : n \in 0..MaxTuples}

\* A tuples value exists; nothing has been done with it.
InitFields ==
    /\ nodes = <<foreignError("context canceled")>>
    /\ calls = [c \in Callers |-> Idle]
    /\ \E t \in TupleLists : last = Call("tuples", Nil, Nil, "", t, Nil, 1)

\* t.fields() on the list as it is.
CallFieldsOfTuples ==
    /\ last.op = "tuples"
    /\ last' = Call("fields", Nil, Nil, "", last.kv, fields(last.kv), Len(nodes))
    /\ UNCHANGED <<nodes, calls>>

\* Enrich(err, t...) with the list.
CallEnrichTuples ==
    /\ last.op = "tuples"
    /\ LET r == Enrich(nodes, 1, last.kv)
       IN  /\ nodes' = r.heap
           /\ last' = Call("Enrich", 1, Nil, "", last.kv, r.ret, Len(nodes))
    /\ UNCHANGED calls

\* Fields() of the enrichedError that Enrich returned.
CallFieldsOfEnriched ==
    /\ last.op = "Enrich"
    /\ Enrichable(nodes, last.ret)
    /\ last' = Call("Fields", last.ret, Nil, "", nodes[last.ret].keysAndValues,
                    Fields(nodes, last.ret), Len(nodes))
    /\ UNCHANGED <<nodes, calls>>

NextFields ==
    \/ CallFieldsOfTuples
    \/ CallEnrichTuples
    \/ CallFieldsOfEnriched

SpecFields == InitFields /\ [][NextFields]_vars

TypeOK ==
    /\ Len(nodes) <= MaxNodes + 1
    /\ \A n \in Present(nodes) :
          nodes[n].kind \in {"errorString", "withMessage", "withError", "enrichedError", "foreign"}
(* ============================== properties ============================= *)

Created == Len(nodes) - last.pre
Fresh(r) == r = Len(nodes) /\ r > last.pre

\* C1: WrapError with a nil err returns supplied itself, with a nil supplied
\* it returns err itself, with both nil it returns nil; such a call leaves
\* the heap as it was (no node created, no message changed).
C1_WrapErrorIdentity ==
    [][(last'.op = "WrapError" /\ (last'.err = Nil \/ last'.supplied = Nil))
         => /\ nodes' = nodes
            /\ last'.err = Nil => last'.ret = last'.supplied
            /\ last'.supplied = Nil => last'.ret = last'.err]_vars

C1_Witness ==
    /\ last.op = "WrapError"
    /\ last.err = Nil
    /\ last.supplied # Nil
    /\ last.ret = last.supplied
    /\ nodes[last.ret].kind = "enrichedError"

\* C2: WrapError of a present err and a present supplied returns a fresh
\* withError node whose message is supplied's message, ": " and err's
\* message, whose Unwrap is supplied itself and whose Cause is err itself.
C2_WrapErrorNode ==
    (last.op = "WrapError" /\ last.err # Nil /\ last.supplied # Nil)
      => /\ Fresh(last.ret)
         /\ Created = 1
         /\ nodes[last.ret].kind = "withError"
         /\ Error(nodes, last.ret)
              = Error(nodes, last.supplied) \o ": " \o Error(nodes, last.err)
         /\ Unwrap(nodes, last.ret) = last.supplied
         /\ Cause(nodes, last.ret) = last.err

C2_Witness ==
    /\ last.op = "WrapError"
    /\ last.err # Nil
    /\ last.supplied # Nil
    /\ last.err # last.supplied
    /\ nodes[last.supplied].kind = "enrichedError"
    /\ nodes[last.err].kind = "foreign"
    /\ Error(nodes, last.ret) = "failed: context canceled"

\* C4: Wrap of a present err returns a fresh withMessage node whose message
\* is the given message, ": " and err's message, and whose Unwrap is err
\* itself; Wrap and Wrapf of a nil err return nil and create no node.
C4_Wrap ==
    /\ (last.op = "Wrap" /\ last.err # Nil)
         => /\ Fresh(last.ret)
            /\ Created = 1
            /\ nodes[last.ret].kind = "withMessage"
            /\ Error(nodes, last.ret) = last.message \o ": " \o Error(nodes, last.err)
            /\ Unwrap(nodes, last.ret) = last.err
    /\ (last.op \in {"Wrap", "Wrapf"} /\ last.err = Nil)
         => /\ last.ret = Nil
            /\ Created = 0

C4_Witness ==
    /\ last.op = "Wrap"
    /\ last.err # Nil
    /\ nodes[last.err].kind = "withError"
    /\ Error(nodes, last.ret) = "oops: failed: context canceled"
    /\ Unwrap(nodes, last.ret) = last.err

C6_EnrichDeclines ==
    /\ (last.op = "Enrich" /\ last.err = Nil)
         => /\ last.ret = Nil
            /\ Created = 0
    /\ (last.op = "Enrich" /\ last.err # Nil /\ Len(last.kv) % 2 = 1)
         => /\ last.ret = last.err
            /\ Created = 0

C6_Witness ==
    /\ last.op = "Enrich"
    /\ last.err # Nil
    /\ last.kv = KVOdd
    /\ last.ret = last.err
    /\ nodes[last.err].kind = "errorString"
(* The error graph: the unwrap edge and the cause edge of every node. *)
Edges(h, n) == {h[n].err, h[n].cause} \ {Nil}

RECURSIVE Closure(_, _)
Closure(h, S) ==
    LET T == S \cup UNION {Edges(h, n) : n \in S}
    IN  IF T = S THEN S ELSE Closure(h, T)

\* The errors reachable from x over unwrap and cause edges, x included.
Reachable(h, x) == Closure(h, {x})

\* The errors given to WrapError, as supplied or as cause, at any level of x.
GivenToWrapError(h, x) ==
    UNION {{h[w].err, h[w].cause} : w \in {n \in Reachable(h, x) : h[n].kind = "withError"}}

\* C3: Is(x, t) is true for every t given as the supplied error or as the
\* cause of a WrapError at any level of x, whatever Wrap and Enrich layers lie
\* in between, a foreign cause at the bottom included.
C3_IsMatchesSuppliedAndCause ==
    \A x \in Present(nodes) :
        \A t \in GivenToWrapError(nodes, x) : Is(nodes, x, t)

C3_Witness ==
    /\ last.op = "Is"
    /\ last.ret = TRUE
    /\ \E x \in Present(nodes) :
          /\ nodes[x].kind = "withError"
          /\ nodes[nodes[x].err].kind = "errorString"
          /\ nodes[nodes[x].cause].kind = "withError"
          /\ nodes[nodes[nodes[x].cause].err].kind = "errorString"
          /\ nodes[nodes[nodes[x].cause].cause].kind = "foreign"
          /\ Is(nodes, x, nodes[nodes[x].cause].cause)
\* C7: the pairs collected from a node are its own pairs (an enrichedError's
\* list), then those collected along its unwrap edge, then those collected
\* along its cause edge, at every node; Tuples() of Enrich(x, kv) is kv
\* followed by the pairs collected from x.
C7_TuplesOrder ==
    /\ \A n \in Present(nodes) :
          keysAndValues(nodes, n) =
             CASE nodes[n].kind = "enrichedError" ->
                     nodes[n].keysAndValues \o keysAndValues(nodes, nodes[n].err)
               [] nodes[n].kind = "withError" ->
                     keysAndValues(nodes, nodes[n].err) \o keysAndValues(nodes, nodes[n].cause)
               [] nodes[n].kind = "withMessage" ->
                     keysAndValues(nodes, nodes[n].err)
               [] OTHER -> <<>>
    /\ (last.op = "Enrich" /\ Created = 1)
          => Tuples(nodes, last.ret) = last.kv \o keysAndValues(nodes, last.err)

\* Enrich(WrapError(cause, supplied), KVId) with supplied carrying KVBlock
\* and the cause carrying KVId.
C7_Witness ==
    /\ last.op = "Tuples"
    /\ \E n \in Present(nodes) :
          /\ nodes[n].kind = "enrichedError"
          /\ nodes[n].keysAndValues = KVId
          /\ nodes[nodes[n].err].kind = "withError"
          /\ Tuples(nodes, nodes[nodes[n].err].err) = KVBlock
          /\ Tuples(nodes, nodes[nodes[n].err].cause) = KVId
          /\ last.ret = Tuples(nodes, n)
          /\ last.ret = KVId \o KVBlock \o KVId
\* C8: Fields() of an enriched error is the mapping of the aggregated pair
\* sequence, the one Tuples() returns.
C8_FieldsOfAggregate ==
    \A n \in Present(nodes) :
        nodes[n].kind = "enrichedError"
          => Fields(nodes, n) = fields(Tuples(nodes, n))

\* The heap before the last call: constructors only append to the heap.
HeapBefore == SubSeq(nodes, 1, last.pre)

\* C9: EnrichWrapError(err, supplied, kv) gives what Enrich(WrapError(err,
\* supplied), kv) gives from the same heap: nil in the same cases, otherwise
\* the same message, unwrap target, cause and Tuples(), with the same nodes
\* created.
C9_EnrichWrapErrorEquiv ==
    last.op = "EnrichWrapError"
      => LET w == WrapError(HeapBefore, last.err, last.supplied)
             r == Enrich(w.heap, w.ret, last.kv)
             h == r.heap
             e == r.ret
         IN  /\ (last.ret = Nil) <=> (e = Nil)
             /\ Len(nodes) = Len(h)
             /\ last.ret # Nil
                  => /\ Error(nodes, last.ret) = Error(h, e)
                     /\ Unwrap(nodes, last.ret) = Unwrap(h, e)
                     /\ Unwrap(nodes, last.ret) # Nil
                          => nodes[Unwrap(nodes, last.ret)] = h[Unwrap(h, e)]
                     /\ Cause(nodes, last.ret) = Cause(h, e)
                     /\ keysAndValues(nodes, last.ret) = keysAndValues(h, e)

\* EnrichWrapError(New("failed"), New("oops"), "id", 5)
C9_Witness ==
    /\ last.op = "EnrichWrapError"
    /\ last.err # Nil
    /\ last.supplied # Nil
    /\ last.kv = KVId
    /\ Created = 2
    /\ nodes[last.err] = errorString("failed")
    /\ nodes[last.supplied] = errorString("oops")
    /\ Error(nodes, last.ret) = "oops: failed"
    /\ Tuples(nodes, last.ret) = KVId
    /\ Cause(nodes, last.ret) = Nil
    /\ Cause(nodes, Unwrap(nodes, last.ret)) = last.err
\* C10: no call changes an existing error: every step, of one caller or
\* interleaved between concurrent callers, leaves the message, the unwrap
\* edge, the cause edge and the pairs of every existing node as they were,
\* and with them the values of Error() and of the collected pairs; a result
\* a caller computed at entry (Error(), Tuples()) is still the value of the
\* same call in every later heap.
C10_NodesImmutable ==
    [][/\ Len(nodes') >= Len(nodes)
       /\ nodes' # nodes
            => \A n \in Present(nodes) :
                  /\ nodes'[n] = nodes[n]
                  /\ Error(nodes', n) = Error(nodes, n)
                  /\ keysAndValues(nodes', n) = keysAndValues(nodes, n)
       /\ \A c \in Callers :
            /\ (calls'[c].pc = "entered" /\ calls'[c].op = "Error")
                 => calls'[c].ret = Error(nodes', calls'[c].err)
            /\ (calls'[c].pc = "entered" /\ calls'[c].op = "Tuples")
                 => calls'[c].ret = Tuples(nodes', calls'[c].err)]_vars

\* A caller is reading Tuples() of an enriched error that another caller has
\* re-enriched since the read began.
C10_Witness ==
    \E c \in Callers :
        /\ calls[c].pc = "entered"
        /\ calls[c].op = "Tuples"
        /\ calls[c].ret = KVId
        /\ \E n \in Present(nodes) :
              /\ n > calls[c].pre
              /\ nodes[n].kind = "enrichedError"
              /\ nodes[n].err = calls[c].err
              /\ nodes[n].keysAndValues = KVBlock
\* C11 (as claimed): whatever the variant of a present err, Enrich with a
\* list of odd length returns a value that is not enrichable-typed.
C11_OddNeverEnrichable ==
    (last.op = "Enrich" /\ last.err # Nil /\ Len(last.kv) % 2 = 1)
      => ~Enrichable(nodes, last.ret)

\* C11 (amended): Enrich with a list of odd length returns err itself, so the
\* value is enrichable-typed exactly when err already was: it exposes neither
\* Tuples() nor Fields() for an err that is not an enrichedError.
C11_OddEnrichableAsErr ==
    (last.op = "Enrich" /\ last.err # Nil /\ Len(last.kv) % 2 = 1)
      => /\ Enrichable(nodes, last.ret) <=> Enrichable(nodes, last.err)
         /\ Created = 0

C11_Witness ==
    /\ last.op = "Enrich"
    /\ last.kv = KVOdd
    /\ last.err # Nil
    /\ nodes[last.err].kind = "withError"
    /\ ~Enrichable(nodes, last.ret)
    /\ \E n \in Present(nodes) : Enrichable(nodes, n)

\* C12: Enrich of a present err with no key-value argument returns err itself
\* and creates no enrichedError.
C12_EnrichNoArguments ==
    (last.op = "Enrich" /\ last.err # Nil /\ last.kv = KVEmpty)
      => /\ last.ret = last.err
         /\ Created = 0

\* C13: Cause looks at the given value only: it is the cause of a withError
\* and nil for nil, for a plain, a foreign, a message-wrapped and an enriched
\* error, also when that error wraps a withError directly (the results of
\* Wrap, Enrich and EnrichWrapError with an even list have no cause).
C13_CauseOnGivenNodeOnly ==
    /\ Cause(nodes, Nil) = Nil
    /\ \A x \in Present(nodes) :
          /\ nodes[x].kind = "withError"
               => Cause(nodes, x) = nodes[x].cause /\ Cause(nodes, x) # Nil
          /\ nodes[x].kind # "withError" => Cause(nodes, x) = Nil
    /\ (last.op \in {"Wrap", "Wrapf", "Enrich"} /\ Created = 1)
          => Cause(nodes, last.ret) = Nil
    /\ (last.op = "WrapError" /\ Created = 1)
          => Cause(nodes, last.ret) = last.err
    /\ (last.op = "EnrichWrapError" /\ Created = 2)
          => /\ Cause(nodes, last.ret) = Nil
             /\ Cause(nodes, Unwrap(nodes, last.ret)) = last.err

C13_Witness ==
    /\ last.op = "Cause"
    /\ last.ret = Nil
    /\ \E x \in Present(nodes) :
          /\ nodes[x].kind = "enrichedError"
          /\ nodes[nodes[x].err].kind = "withError"
          /\ Cause(nodes, x) = Nil
          /\ Cause(nodes, nodes[x].err) # Nil
    /\ \E y \in Present(nodes) :
          /\ nodes[y].kind = "withMessage"
          /\ nodes[nodes[y].err].kind = "withError"
\* The errors n in the graph of x that match t: n is t itself, or n is an
\* errorString whose message is the display string of t.
Matches(h, n, t) ==
    \/ n = t
    \/ h[n].kind = "errorString" /\ h[n].message = Error(h, t)

\* C14: for present x and t, Is(x, t) is true exactly when some error
\* reachable from x over unwrap and cause edges, x included, is t itself or is
\* a plain error whose message equals t.Error(), whatever the variant of t.
C14_IsIsReachability ==
    \A x \in Present(nodes), t \in Present(nodes) :
        Is(nodes, x, t) <=> \E n \in Reachable(nodes, x) : Matches(nodes, n, t)

C14_Witness ==
    /\ last.op = "Is"
    /\ last.ret = TRUE
    /\ \E x \in Present(nodes), t \in Present(nodes) :
          /\ t \notin Reachable(nodes, x)
          /\ nodes[t].kind = "withMessage"
          /\ Is(nodes, x, t)
    /\ \E x \in Present(nodes), t \in Present(nodes) :
          /\ t \in Reachable(nodes, x) \ {x}
          /\ Is(nodes, x, t)
          /\ ~Is(nodes, t, x)
\* The positions of a list where fields expects a key.
KeyPositions(t) == {i \in 1..Len(t) : i % 2 = 1}

\* The key positions holding a value that is not a string or is "".
BadPositions(t) == {i \in KeyPositions(t) : t[i].t # "string" \/ t[i].v = ""}

\* The first of them; Len(t) + 1 when every key is a non-empty string.
FirstBad(t) ==
    IF BadPositions(t) = {} THEN Len(t) + 1
    ELSE CHOOSE i \in BadPositions(t) : \A j \in BadPositions(t) : i <= j

\* The key positions of the pairs before the first bad key.
PairPositions(t) == {i \in KeyPositions(t) : i < FirstBad(t) /\ i < Len(t)}

\* What is left unpaired: the tail from the first bad key, or the key left
\* without a value at the end.
Unpaired(t) ==
    IF FirstBad(t) <= Len(t) THEN SubSeq(t, FirstBad(t), Len(t))
    ELSE IF Len(t) % 2 = 1 THEN <<t[Len(t)]>>
    ELSE <<>>

\* C15 (as claimed): every well-formed pair before the first bad key, or
\* before a key left without a value, is kept in the map (of pairs with the
\* same key, the last), whatever is stored under "malformedFields".
C15_FieldsKeepsEveryPair ==
    last.op \in {"fields", "Fields"} =>
        LET t == last.kv
            m == last.ret
        IN  \A i \in PairPositions(t) :
                \/ m[t[i].v] = t[i + 1]
                \/ \E j \in PairPositions(t) : j > i /\ t[j].v = t[i].v

\* C15 (amended): fields pairs the list positionally up to the first key that is not a
\* non-empty string: the map holds, for each key of a pair before that
\* position, the value of the last such pair; the whole tail from that
\* position, or else the key left without a value at the end, is stored
\* under "malformedFields", where it replaces a well-formed pair whose key
\* is "malformedFields"; an empty list gives the empty map.
C15_FieldsPairing ==
    last.op \in {"fields", "Fields"} =>
        LET t == last.kv
            m == last.ret
            stored == {t[i].v : i \in PairPositions(t)}
        IN  /\ DOMAIN m = stored \cup (IF Unpaired(t) = <<>> THEN {}
                                       ELSE {"malformedFields"})
            /\ Unpaired(t) # <<>> => m["malformedFields"] = Slice(Unpaired(t))
            /\ \A i \in PairPositions(t) :
                  \/ m[t[i].v] = t[i + 1]
                  \/ \E j \in PairPositions(t) : j > i /\ t[j].v = t[i].v
                  \/ t[i].v = "malformedFields" /\ Unpaired(t) # <<>>
            /\ Len(t) = 0 => m = EmptyMap
            /\ last.op = "Fields" => nodes[last.err].keysAndValues = t

\* A pair, then a key that is not a string with two more elements behind it.
C15_Witness ==
    /\ last.op = "Fields"
    /\ last.kv = <<Str("id"), Int("5"), Int("5"), Str("id")>>
    /\ DOMAIN last.ret = {"id", "malformedFields"}
    /\ last.ret["id"] = Int("5")
    /\ last.ret["malformedFields"] = Slice(<<Int("5"), Str("id")>>)
\* The value reached from e by k calls of Unwrap, or nil when the chain ends
\* before.
RECURSIVE UnwrapTimes(_, _, _)
UnwrapTimes(h, e, k) ==
    IF k = 0 \/ e = Nil THEN e ELSE UnwrapTimes(h, Unwrap(h, e), k - 1)

\* C16: the graph is acyclic: every edge of an error points to an error that
\* existed before it was created, no call adds an edge to an existing error,
\* and from every error repeated Unwrap reaches nil in at most as many steps
\* as there are errors before it.
C16_Acyclic ==
    /\ \A n \in Present(nodes) : nodes[n].err < n /\ nodes[n].cause < n
    /\ \A n \in Present(nodes) : n <= last.pre => nodes[n] = HeapBefore[n]
    /\ \A n \in Present(nodes) : UnwrapTimes(nodes, n, n) = Nil
    /\ \A n \in Present(nodes) : n \notin UNION {Reachable(nodes, m) : m \in Edges(nodes, n)}

C16_Witness ==
    /\ last.op = "Unwrap"
    /\ last.ret = Nil
    /\ \E n \in Present(nodes) :
          /\ UnwrapTimes(nodes, n, 2) # Nil
          /\ UnwrapTimes(nodes, n, 3) = Nil
          /\ \E w \in Reachable(nodes, n) : nodes[w].kind = "withError"

\* C17: every withMessage and every enrichedError has a present inner error,
\* every withError a present supplied error and a present cause, so Error()
\* of an enrichedError and the traversals never meet a nil inner error.
C17_InnerErrorsPresent ==
    \A n \in Present(nodes) :
        /\ nodes[n].kind \in {"withMessage", "enrichedError"}
             => nodes[n].err \in Present(nodes) /\ nodes[n].cause = Nil
        /\ nodes[n].kind = "withError"
             => nodes[n].err \in Present(nodes) /\ nodes[n].cause \in Present(nodes)
        /\ nodes[n].kind \in {"errorString", "foreign"}
             => nodes[n].err = Nil /\ nodes[n].cause = Nil

\* Each wrapping variant exists and Error() has been called.
C17_Witness ==
    /\ last.op = "Error"
    /\ \E a \in Present(nodes), b \in Present(nodes), c \in Present(nodes) :
          /\ nodes[a].kind = "withMessage"
          /\ nodes[b].kind = "withError"
          /\ nodes[c].kind = "enrichedError"

\* C18: every enrichedError holds a local list of even length, so Tuples()
\* has even length and Fields() ends with no key left without a value.
C18_EvenLocalPairs ==
    \A n \in Present(nodes) :
        nodes[n].kind = "enrichedError"
          => /\ Len(nodes[n].keysAndValues) % 2 = 0
             /\ Len(Tuples(nodes, n)) % 2 = 0
             /\ fieldsLoop(nodes[n].keysAndValues, 1, "", EmptyMap).label = ""

C18_Witness ==
    /\ last.op = "Fields"
    /\ \E n \in Present(nodes) :
          /\ nodes[n].kind = "enrichedError"
          /\ nodes[n].keysAndValues = KVBlock
          /\ Len(Tuples(nodes, n)) = 6
          /\ last.ret = Fields(nodes, n)
    /\ Len(nodes) = MaxNodes
\* The enrichedErrors among the errors reachable from x.
EnrichedIn(h, x) == {n \in Reachable(h, x) : h[n].kind = "enrichedError"}

\* The sum of the lengths of the local lists of the errors of S.
RECURSIVE LocalLength(_, _)
LocalLength(h, S) ==
    IF S = {} THEN 0
    ELSE LET n == CHOOSE m \in S : TRUE
         IN  Len(h[n].keysAndValues) + LocalLength(h, S \ {n})

\* C19: Tuples() of an enrichedError holds the local pairs of every
\* enrichedError reachable from it exactly once, so it is as long as their
\* local lists together, also when an enrichedError is reachable both over
\* the unwrap edge and over the cause edge of a withError.
C19_EachEnrichedOnce ==
    \A x \in Present(nodes) :
        nodes[x].kind = "enrichedError"
          => Len(Tuples(nodes, x)) = LocalLength(nodes, EnrichedIn(nodes, x))
====
